---- MODULE Spec2Model ----
(***************************************************************************)
(* Model of the insults agents (deeppavlov/agents/insults):                *)
(*   InsultsModel (model.py): the adapter over one trained model,          *)
(*   InsultsAgent, OneEpochAgent, EnsembleInsultsAgent and                 *)
(*   BoostEnsembleInsultsAgent (insults_agents.py): the agent shells.      *)
(*                                                                         *)
(* Scores are kept as exact rationals num/(den*ScoreScale); a text is a    *)
(* sequence of characters; a persisted file is a content number, with      *)
(* Absent for a file that does not exist.                                  *)
(***************************************************************************)
EXTENDS Integers, Sequences, FiniteSets, TLC

VARIABLES
    cls,            \* class being constructed / of the constructed object
    shared,         \* the constructor's `shared` argument is not None
    opt,            \* the option dictionary handed to the constructor
    fs,             \* persisted artifacts: path -> artifact -> content
    phase,          \* "new" (before __init__), "ready", "failed"
    is_shared,      \* agent.is_shared
    episode_done,   \* agent.episode_done
    observation,    \* agent.observation
    n_examples,     \* agent.n_examples (Unset in shared mode)
    observations_,  \* OneEpochAgent.observations_
    models,         \* the adapters: agent.model (length 1) or agent.models
    model_coefs,    \* ensemble agent.model_coefs
    ret,            \* the call in progress: its arguments and outcome
    heard,          \* history: the texts observed in the running episode
    loaded          \* the object constructed anew after a save (<<>>: none)

vars == <<cls, shared, opt, fs, phase, is_shared, episode_done, observation,
          n_examples, observations_, models, model_coefs, ret, heard, loaded>>

----------------------------------------------------------------------------
(* Bounds                                                                  *)

MaxBatch == 2        \* longest batch handed to batch_act
MaxTextLen == 5      \* longest stored dialogue text (three one-letter turns)
MaxModels == 2       \* longest ensemble model list
MaxCollected == 2    \* most observations a OneEpochAgent collects
MaxUpdates == 2      \* most training steps of one adapter
MaxExamples == 3     \* largest n_examples counted

----------------------------------------------------------------------------
(* Values                                                                  *)

Absent == 0 - 1                 \* a file that does not exist
Unset == 0 - 1                  \* an attribute that was never assigned
NoPath == "none"                \* Python None for a path option
Paths == {"A", "B"}
PathId == [A |-> 1, B |-> 2]
PathOf(id) == IF \E p \in Paths : PathId[p] = id
              THEN CHOOSE p \in Paths : PathId[p] = id
              ELSE NoPath

VectFiles == {"special", "g0", "g1", "g2", "g3", "g4", "g5"}
Artifacts == {"opt", "h5", "cls"} \cup VectFiles

NNNames == {"cnn_word", "lstm_word"}
NgramNames == {"log_reg", "svc"}
ModelNames == NNNames \cup NgramNames \cup {"foo"}

AgentClasses == {"InsultsAgent", "OneEpochAgent", "EnsembleInsultsAgent",
                 "BoostEnsembleInsultsAgent"}
EnsembleClasses == {"EnsembleInsultsAgent", "BoostEnsembleInsultsAgent"}

NoneObs == [none |-> TRUE]      \* Agent.__init__: self.observation = None
StrObs == [str |-> TRUE]        \* OneEpochAgent.__init__: self.observation = ''

SeqsUpTo(S, n) == UNION {[1..k -> S] : k \in 0..n}

----------------------------------------------------------------------------
(* InsultsModel.__init__                                                   *)

isfile(files, p, a) == p \in Paths /\ files[p][a] # Absent

ModelType(model_name) ==
    IF model_name \in NNNames THEN "nn"
    ELSE IF model_name \in NgramNames THEN "ngrams"
    ELSE "None"

\* the adapter right after lines 81-100, before an initialisation path runs
NewModel(model_name, o) ==
    [model_name |-> model_name,
     model_type |-> ModelType(model_name),
     from_saved |-> FALSE,
     model |-> Unset,
     vectorizers |-> Unset,
     opt_model_file |-> o.model_file,
     updates |-> 0,
     train_loss |-> 0,
     train_acc |-> 0,
     train_auc |-> 0]

\* the condition of lines 102-113
SavedCheck(m, o, files) ==
    /\ o.model_file # NoPath
    /\ \/ isfile(files, o.model_file, "h5") /\ m.model_type = "nn"
       \/ /\ isfile(files, o.model_file, "opt")
          /\ isfile(files, o.model_file, "cls")
          /\ \A v \in VectFiles : isfile(files, o.model_file, v)
          /\ m.model_type = "ngrams"

Ok(m) == [err |-> "none", m |-> m]
Err(e, m) == [err |-> e, m |-> m]

_init_from_saved(m, fname, files) ==
    IF ~isfile(files, fname, "opt") THEN Err("FileNotFoundError", m)
    ELSE LET m1 == [m EXCEPT !.opt_model_file = PathOf(files[fname]["opt"])]
         IN  IF m.model_type = "nn"
             THEN IF isfile(files, fname, "h5")
                  THEN Ok([m1 EXCEPT !.model = files[fname]["h5"]])
                  ELSE Err("OSError", m1)
             ELSE IF m.model_type = "ngrams"
             THEN IF isfile(files, fname, "cls")
                  THEN Ok([m1 EXCEPT !.model = files[fname]["cls"]])
                  ELSE Err("FileNotFoundError", m1)
             ELSE Ok(m1)

\* a fresh model object exists only for the four known names
_init_from_scratch(m) ==
    IF m.model_name \in NNNames \cup NgramNames
    THEN Ok([m EXCEPT !.model = 0])
    ELSE Ok(m)

InsultsModel_pretrained_first(model_name, o, files) ==
    LET m == NewModel(model_name, o)
    IN  IF o.pretrained_model # NoPath
        THEN _init_from_saved([m EXCEPT !.from_saved = TRUE], o.pretrained_model, files)
        ELSE IF SavedCheck(m, o, files)
        THEN _init_from_saved([m EXCEPT !.from_saved = TRUE], o.model_file, files)
        ELSE _init_from_scratch(m)

\* InsultsModel.__init__
InsultsModel(model_name, o, files) ==
    LET m == NewModel(model_name, o)
    IN  IF SavedCheck(m, o, files)
        THEN _init_from_saved([m EXCEPT !.from_saved = TRUE], o.model_file, files)
        ELSE IF o.pretrained_model # NoPath
        THEN _init_from_saved([m EXCEPT !.from_saved = TRUE], o.pretrained_model, files)
        ELSE _init_from_scratch(m)

\* utils.get_vectorizer_selector(model_file, num_ngrams): reads the special
\* slot and the six general slots stored next to model_file
get_vectorizer_selector(model_file, files) ==
    IF model_file = NoPath THEN [err |-> "TypeError", v |-> Unset]
    ELSE IF \A v \in VectFiles : isfile(files, model_file, v)
    THEN [err |-> "none", v |-> files[model_file]["special"]]
    ELSE [err |-> "FileNotFoundError", v |-> Unset]

----------------------------------------------------------------------------
(* Agent constructors                                                      *)

\* the fields of an object under construction, before __init__ assigns them
Blank ==
    [err |-> "none", is_shared |-> FALSE, episode_done |-> TRUE,
     observation |-> NoneObs, n_examples |-> Unset, observations_ |-> <<>>,
     models |-> <<>>, model_coefs |-> <<>>]

Known(model_name) == model_name \in NNNames \cup NgramNames

\* InsultsAgent.__init__
InsultsAgentInit(o, sh, files) ==
    IF sh THEN [Blank EXCEPT !.is_shared = TRUE]
    ELSE IF ~Known(o.model_name) THEN [Blank EXCEPT !.err = "AttributeError"]
    ELSE LET r == InsultsModel(o.model_name, o, files)
         IN  IF r.err # "none" THEN [Blank EXCEPT !.err = r.err]
             ELSE IF r.m.from_saved /\ r.m.model_type = "ngrams"
             THEN LET g == get_vectorizer_selector(o.model_file, files)
                  IN  IF g.err # "none" THEN [Blank EXCEPT !.err = g.err]
                      ELSE [Blank EXCEPT
                              !.models = <<[r.m EXCEPT !.vectorizers = g.v]>>,
                              !.n_examples = 0]
             ELSE [Blank EXCEPT !.models = <<r.m>>, !.n_examples = 0]

\* OneEpochAgent.__init__
OneEpochAgentInit(o, sh, files) ==
    LET a == InsultsAgentInit(o, sh, files)
    IN  IF a.err # "none" THEN a
        ELSE [a EXCEPT !.observation = StrObs, !.observations_ = <<>>]

\* the loop of EnsembleInsultsAgent.__init__ from its i-th model on;
\* dict_set: self.word_dict and embedding_dict were assigned by an earlier turn
RECURSIVE BuildModels(_, _, _, _, _)
BuildModels(i, o, files, ms, dict_set) ==
    IF i > Len(o.model_names) THEN [err |-> "none", ms |-> ms]
    ELSE IF i > Len(o.model_files) THEN [err |-> "IndexError", ms |-> ms]
    ELSE LET model_name == o.model_names[i]
             model_file == o.model_files[i]
             o1 == [o EXCEPT !.pretrained_model = model_file]
         IN  IF ~Known(model_name) /\ ~dict_set
             THEN [err |-> "AttributeError", ms |-> ms]
             ELSE LET r == InsultsModel(model_name, o1, files)
                  IN  IF r.err # "none" THEN [err |-> r.err, ms |-> ms]
                      ELSE IF model_name \in NgramNames
                      THEN LET g == get_vectorizer_selector(model_file, files)
                           IN  IF g.err # "none" THEN [err |-> g.err, ms |-> ms]
                               ELSE BuildModels(i + 1, o1, files,
                                      Append(ms, [r.m EXCEPT !.vectorizers = g.v]),
                                      TRUE)
                      ELSE BuildModels(i + 1, o1, files, Append(ms, r.m), TRUE)

\* EnsembleInsultsAgent.__init__ and BoostEnsembleInsultsAgent.__init__
EnsembleInsultsAgentInit(o, sh, files) ==
    IF sh THEN [Blank EXCEPT !.is_shared = TRUE]
    ELSE LET b == BuildModels(1, o, files, <<>>, FALSE)
         IN  IF b.err # "none" THEN [Blank EXCEPT !.err = b.err]
             ELSE [Blank EXCEPT !.models = b.ms,
                                !.model_coefs = o.model_coefs,
                                !.n_examples = 0]

\* constructing the adapter alone
InsultsModelInit(o, files) ==
    LET r == InsultsModel(o.model_name, o, files)
    IN  IF r.err # "none" THEN [Blank EXCEPT !.err = r.err]
        ELSE [Blank EXCEPT !.models = <<r.m>>]

New(c, o, sh, files) ==
    IF c = "InsultsModel" THEN InsultsModelInit(o, files)
    ELSE IF c = "InsultsAgent" THEN InsultsAgentInit(o, sh, files)
    ELSE IF c = "OneEpochAgent" THEN OneEpochAgentInit(o, sh, files)
    ELSE EnsembleInsultsAgentInit(o, sh, files)

NoCall == [op |-> "none", err |-> "none", batch |-> <<>>, reply |-> <<>>]
Call(op, err, batch, reply) ==
    [op |-> op, err |-> err, batch |-> batch, reply |-> reply]

\* the caller takes the outcome of the call in progress
Return ==
    /\ ret # NoCall
    /\ ret' = NoCall
    /\ UNCHANGED <<cls, shared, opt, fs, phase, is_shared, episode_done,
                   observation, n_examples, observations_, models,
                   model_coefs, heard, loaded>>

Idle == phase = "ready" /\ ret = NoCall

Construct ==
    /\ phase = "new"
    /\ LET a == New(cls, opt, shared, fs)
       IN  /\ phase' = IF a.err = "none" THEN "ready" ELSE "failed"
           /\ is_shared' = a.is_shared
           /\ episode_done' = a.episode_done
           /\ observation' = a.observation
           /\ n_examples' = a.n_examples
           /\ observations_' = a.observations_
           /\ models' = a.models
           /\ model_coefs' = a.model_coefs
           /\ ret' = Call("__init__", a.err, <<>>, <<>>)
    /\ UNCHANGED <<cls, shared, opt, fs, heard, loaded>>

----------------------------------------------------------------------------
(* Dictionaries, texts and scores                                          *)

EmptyDict == [k \in {} |-> 0]
HasKey(d, k) == k \in DOMAIN d
len(d) == Cardinality(DOMAIN d)

\* an observation: 'episode_done' always, 'text' and 'labels' when given
\* (NoText and NoLabels stand for the missing key)
NoText == <<>>
NoLabels == <<>>
Obs(t, l, d) ==
    [episode_done |-> d]
        @@ (IF t # NoText THEN [text |-> t] ELSE EmptyDict)
        @@ (IF l # NoLabels THEN [labels |-> l] ELSE EmptyDict)

Texts == {<<"a">>, <<"b">>}
Observations ==
    {Obs(t, l, d) : t \in Texts \cup {NoText},
                    l \in {NoLabels, <<"Insult">>}, d \in BOOLEAN}
BatchObservations ==
    {Obs(<<"a">>, NoLabels, TRUE), Obs(<<"b">>, NoLabels, TRUE),
     Obs(NoText, NoLabels, TRUE),
     Obs(<<"a">>, <<"Insult">>, TRUE), Obs(<<"b">>, <<"Non-insult">>, TRUE),
     Obs(NoText, <<"Insult">>, TRUE)}

\* scores are counted in units of 10^-5; a score is the rational num/den
Threshold == 50000
Q(n) == [num |-> n, den |-> 1]
Gt(q, t) == IF q.den > 0 THEN q.num > t * q.den ELSE q.num < t * q.den

RECURSIVE Sum(_)
Sum(s) == IF Len(s) = 0 THEN 0 ELSE s[1] + Sum(Tail(s))

CharCode(c) == IF c = "b" THEN 1 ELSE 0
TextKey(t) == Sum([i \in 1..Len(t) |-> CharCode(t[i])])

\* what the external model answers: a function of the trained parameters,
\* the model family's features and the text; one table entry per case
ScoreTable == <<100000, 80000, 40000, 50000, 50001, 0>>
NumParams == Len(ScoreTable)
NameBias(model_name) == IF model_name \in NgramNames THEN 1 ELSE 0
Features(m) == IF m.model_type = "ngrams" THEN m.vectorizers ELSE 0
Score(m, text) ==
    Q(ScoreTable[((m.model + Features(m) + NameBias(m.model_name)
                   + TextKey(text)) % NumParams) + 1])

----------------------------------------------------------------------------
(* InsultsModel operations                                                 *)

NoneEx == [none |-> TRUE]

_build_ex(ex) ==
    IF ~HasKey(ex, "text") THEN NoneEx
    ELSE [question |-> ex.text]
            @@ (IF HasKey(ex, "labels") THEN [labels |-> ex.labels] ELSE EmptyDict)

_predictions2text_inclusive(predictions) ==
    [i \in 1..Len(predictions) |->
        IF Gt(predictions[i], Threshold - 1) THEN "Insult" ELSE "Non-insult"]

_predictions2text(predictions) ==
    [i \in 1..Len(predictions) |->
        IF Gt(predictions[i], Threshold) THEN "Insult" ELSE "Non-insult"]

_text2predictions(predictions) ==
    [i \in 1..Len(predictions) |-> IF predictions[i] = "Insult" THEN 1 ELSE 0]

\* kind: "x" (features alone), "xy" (features and labels), "None"
Batch(err, kind, x, y) == [err |-> err, kind |-> kind, x |-> x, y |-> y]

_batchify(m, batch) ==
    IF m.model_type = "None" THEN Batch("none", "None", <<>>, <<>>)
    ELSE IF Len(batch) = 0 THEN Batch("IndexError", "x", <<>>, <<>>)
    ELSE LET question == [i \in 1..Len(batch) |-> batch[i].question]
         IN  IF len(batch[1]) = 2
             THEN IF \E i \in 1..Len(batch) : ~HasKey(batch[i], "labels")
                  THEN Batch("KeyError", "xy", question, <<>>)
                  ELSE Batch("none", "xy", question,
                             [i \in 1..Len(batch) |->
                                IF batch[i].labels[1] = "Insult" THEN 1 ELSE 0])
             ELSE Batch("none", "x", question, <<>>)

Pred(err, isnone, y_pred, m) ==
    [err |-> err, isnone |-> isnone, y_pred |-> y_pred, m |-> m]

\* predict_on_batch / vectorize_select_from_data reject a (features, labels)
\* pair; the n-gram family needs its vectorizers
predict(m, batch) ==
    IF m.model_type = "None" THEN Pred("none", TRUE, <<>>, m)
    ELSE IF batch.kind # "x" THEN Pred("TypeError", FALSE, <<>>, m)
    ELSE IF m.model_type = "ngrams" /\ m.vectorizers = Unset
    THEN Pred("TypeError", FALSE, <<>>, m)
    ELSE Pred("none", FALSE, [i \in 1..Len(batch.x) |-> Score(m, batch.x[i])], m)

\* the parameters after one training step: a gradient step moves the
\* neural parameters, the classical family is fitted anew on the batch
Train(m, x, y) ==
    IF m.model_type = "nn" THEN (m.model + 1 + Sum(y)) % NumParams
    ELSE (1 + Sum(y) + Len(x)) % NumParams

Wrong(y, y_pred) ==
    Cardinality({i \in 1..Len(y) :
                    (y[i] = 1) # Gt(y_pred[i], Threshold)})

update_uncounted(m, batch) ==
    IF batch.kind # "xy" THEN Pred("ValueError", FALSE, <<>>, m)
    ELSE IF m.model_type = "ngrams" /\ m.vectorizers = Unset
    THEN Pred("TypeError", FALSE, <<>>, m)
    ELSE LET m1 == [m EXCEPT !.model = Train(m, batch.x, batch.y)]
             y_pred == [i \in 1..Len(batch.x) |-> Score(m1, batch.x[i])]
         IN  Pred("none", FALSE, y_pred,
                  [m1 EXCEPT !.train_loss = Wrong(batch.y, y_pred),
                             !.train_acc = Len(batch.y) - Wrong(batch.y, y_pred),
                             !.train_auc = Sum(batch.y)])

\* InsultsModel.update
update(m, batch) ==
    IF batch.kind # "xy" THEN Pred("ValueError", FALSE, <<>>, m)
    ELSE IF m.model_type = "ngrams" /\ m.vectorizers = Unset
    THEN Pred("TypeError", FALSE, <<>>, m)
    ELSE LET m1 == [m EXCEPT !.model = Train(m, batch.x, batch.y)]
             y_pred == [i \in 1..Len(batch.x) |-> Score(m1, batch.x[i])]
         IN  Pred("none", FALSE, y_pred,
                  [m1 EXCEPT !.train_loss = Wrong(batch.y, y_pred),
                             !.train_acc = Len(batch.y) - Wrong(batch.y, y_pred),
                             !.train_auc = Sum(batch.y),
                             !.updates = @ + 1])

----------------------------------------------------------------------------
(* Agent operations                                                        *)

getID == "InsultsAgent"

\* outcome of a handler: the error raised ("none" when it returns), the
\* value returned, and the fields as the handler leaves them
Out(err, reply, n, ms, coll) ==
    [err |-> err, reply |-> reply, n_examples |-> n, models |-> ms,
     observations_ |-> coll]

Examples(observations) ==
    [i \in 1..Len(observations) |-> _build_ex(observations[i])]
ValidInds(examples) ==
    SelectSeq([i \in 1..Len(examples) |-> i], LAMBDA i : examples[i] # NoneEx)
Valid(examples) == SelectSeq(examples, LAMBDA ex : ex # NoneEx)

BlankReply(batch_size) == [i \in 1..batch_size |-> [id |-> getID]]

Scatter_unaligned(batch_reply, valid_inds, predictions) ==
    LET predictions_text == _predictions2text(predictions)
    IN  [i \in 1..Len(batch_reply) |->
            IF i <= Len(predictions)
            THEN batch_reply[i] @@ [text |-> predictions_text[i],
                                    score |-> predictions[i]]
            ELSE batch_reply[i]]

\* lines 381-384 and 388-391: write prediction k at position valid_inds[k]
Scatter(batch_reply, valid_inds, predictions) ==
    LET predictions_text == _predictions2text(predictions)
    IN  [i \in 1..Len(batch_reply) |->
            IF \E k \in 1..Len(predictions) : valid_inds[k] = i
            THEN LET k == CHOOSE k \in 1..Len(predictions) : valid_inds[k] = i
                 IN  batch_reply[i] @@ [text |-> predictions_text[k],
                                        score |-> predictions[k]]
            ELSE batch_reply[i]]

\* InsultsAgent.batch_act past its entry check (lines 370-393)
InsultsAgent_batch_act_body(observations) ==
    IF \E i \in 1..Len(observations) : observations[i] = NoneObs
    THEN Out("TypeError", <<>>, n_examples, models, observations_)
    ELSE IF Len(observations) = 0
    THEN Out("IndexError", <<>>, n_examples, models, observations_)
    ELSE
    LET batch_reply == BlankReply(Len(observations))
        valid_inds == ValidInds(Examples(observations))
        examples == Valid(Examples(observations))
        batch == _batchify(models[1], examples)
    IN  IF HasKey(observations[1], "labels")
        THEN LET n == n_examples + Len(examples)
                 u == update(models[1], batch)
             IN  IF batch.err # "none"
                 THEN Out(batch.err, <<>>, n, models, observations_)
                 ELSE IF u.err # "none"
                 THEN Out(u.err, <<>>, n, models, observations_)
                 ELSE Out("none", Scatter(batch_reply, valid_inds, u.y_pred),
                          n, <<u.m>>, observations_)
        ELSE LET r == predict(models[1], batch)
             IN  IF batch.err # "none"
                 THEN Out(batch.err, <<>>, n_examples, models, observations_)
                 ELSE IF r.err # "none"
                 THEN Out(r.err, <<>>, n_examples, models, observations_)
                 ELSE Out("none", Scatter(batch_reply, valid_inds, r.y_pred),
                          n_examples, models, observations_)

InsultsAgent_batch_act_late(observations) ==
    IF Len(observations) = 0
    THEN Out("IndexError", <<>>, n_examples, models, observations_)
    ELSE IF is_shared
    THEN Out("RuntimeError", <<>>, n_examples, models, observations_)
    ELSE InsultsAgent_batch_act_body(observations)

\* InsultsAgent.batch_act
InsultsAgent_batch_act(observations) ==
    IF is_shared
    THEN Out("RuntimeError", <<>>, n_examples, models, observations_)
    ELSE InsultsAgent_batch_act_body(observations)

\* OneEpochAgent.batch_act
OneEpochAgent_batch_act(observations) ==
    LET coll == observations_ \o observations
    IN
    IF is_shared
    THEN Out("RuntimeError", <<>>, n_examples, models, coll)
    ELSE IF Len(observations) = 0
    THEN Out("IndexError", <<>>, n_examples, models, coll)
    ELSE
    LET batch_reply == BlankReply(Len(observations))
        valid_inds == ValidInds(Examples(observations))
        examples == Valid(Examples(observations))
        batch == _batchify(models[1], examples)
        r == predict(models[1], batch)
    IN  IF HasKey(observations[1], "labels")
        THEN Out("none", batch_reply, n_examples + Len(examples), models, coll)
        ELSE IF batch.err # "none"
        THEN Out(batch.err, <<>>, n_examples, models, coll)
        ELSE IF r.err # "none"
        THEN Out(r.err, <<>>, n_examples, models, coll)
        ELSE Out("none", Scatter(batch_reply, valid_inds, r.y_pred),
                 n_examples, models, coll)

weighted_sum_renormalised(coefs, predictions) ==
    IF Len(predictions) > Len(coefs) THEN [err |-> "IndexError", q |-> Q(0)]
    ELSE IF Sum(coefs) = 0 THEN [err |-> "ZeroDivisionError", q |-> Q(0)]
    ELSE [err |-> "none",
          q |-> [num |-> Sum([j \in 1..Len(predictions) |->
                                 coefs[j] * predictions[j].num]),
                 den |-> Sum([j \in 1..Len(predictions) |-> coefs[j]])]]

weighted_sum_unweighted(coefs, predictions) ==
    IF Len(predictions) > Len(coefs) THEN [err |-> "IndexError", q |-> Q(0)]
    ELSE IF Sum(coefs) = 0 THEN [err |-> "ZeroDivisionError", q |-> Q(0)]
    ELSE [err |-> "none",
          q |-> [num |-> Sum([j \in 1..Len(predictions) |-> predictions[j].num]),
                 den |-> Len(predictions)]]

\* EnsembleInsultsAgent.weighted_sum, BoostEnsembleInsultsAgent.weighted_sum
weighted_sum(coefs, predictions) ==
    IF Len(predictions) > Len(coefs) THEN [err |-> "IndexError", q |-> Q(0)]
    ELSE IF Sum(coefs) = 0 THEN [err |-> "ZeroDivisionError", q |-> Q(0)]
    ELSE [err |-> "none",
          q |-> [num |-> Sum([j \in 1..Len(predictions) |->
                                 coefs[j] * predictions[j].num]),
                 den |-> Sum(coefs)]]

\* the loop with an adapter that yields no prediction passed over
RECURSIVE Gather_skipping(_, _, _)
Gather_skipping(j, observations, predictions) ==
    IF j > Len(models) THEN [err |-> "none", predictions |-> predictions]
    ELSE IF \E i \in 1..Len(observations) : observations[i] = NoneObs
    THEN [err |-> "TypeError", predictions |-> predictions]
    ELSE
    LET valid_inds == ValidInds(Examples(observations))
        examples == Valid(Examples(observations))
        batch == _batchify(models[j], examples)
        r == predict(models[j], batch)
    IN  IF batch.err # "none" THEN [err |-> batch.err, predictions |-> predictions]
        ELSE IF r.err # "none" THEN [err |-> r.err, predictions |-> predictions]
        ELSE IF r.isnone THEN Gather_skipping(j + 1, observations, predictions)
        ELSE Gather_skipping(j + 1, observations,
                [i \in 1..Len(predictions) |->
                    IF \E k \in 1..Len(r.y_pred) : valid_inds[k] = i
                    THEN Append(predictions[i],
                                r.y_pred[CHOOSE k \in 1..Len(r.y_pred) :
                                            valid_inds[k] = i])
                    ELSE predictions[i]])

\* the loop of lines 132-140 from model j on; predictions[i] is the list
\* of scores gathered so far for position i
RECURSIVE Gather(_, _, _)
Gather(j, observations, predictions) ==
    IF j > Len(models) THEN [err |-> "none", predictions |-> predictions]
    ELSE IF \E i \in 1..Len(observations) : observations[i] = NoneObs
    THEN [err |-> "TypeError", predictions |-> predictions]
    ELSE
    LET valid_inds == ValidInds(Examples(observations))
        examples == Valid(Examples(observations))
        batch == _batchify(models[j], examples)
        r == predict(models[j], batch)
    IN  IF batch.err # "none" THEN [err |-> batch.err, predictions |-> predictions]
        ELSE IF r.err # "none" THEN [err |-> r.err, predictions |-> predictions]
        ELSE IF r.isnone THEN [err |-> "TypeError", predictions |-> predictions]
        ELSE Gather(j + 1, observations,
                [i \in 1..Len(predictions) |->
                    IF \E k \in 1..Len(r.y_pred) : valid_inds[k] = i
                    THEN Append(predictions[i],
                                r.y_pred[CHOOSE k \in 1..Len(r.y_pred) :
                                            valid_inds[k] = i])
                    ELSE predictions[i]])

\* EnsembleInsultsAgent.batch_act, BoostEnsembleInsultsAgent.batch_act
EnsembleInsultsAgent_batch_act(observations) ==
    IF is_shared
    THEN Out("RuntimeError", <<>>, n_examples, models, observations_)
    ELSE
    LET batch_size == Len(observations)
        batch_reply == BlankReply(batch_size)
        g == Gather(1, observations, [i \in 1..batch_size |-> <<>>])
        predictions == g.predictions
        used == {i \in 1..batch_size : Len(predictions[i]) > 0}
        bad == {i \in used : weighted_sum(model_coefs, predictions[i]).err # "none"}
    IN  IF g.err # "none"
        THEN Out(g.err, <<>>, n_examples, models, observations_)
        ELSE IF bad # {}
        THEN Out(weighted_sum(model_coefs,
                              predictions[CHOOSE i \in bad : \A k \in bad : i <= k]).err,
                 <<>>, n_examples, models, observations_)
        ELSE Out("none",
                 [i \in 1..batch_size |->
                    IF i \in used
                    THEN LET prediction == weighted_sum(model_coefs, predictions[i]).q
                         IN  batch_reply[i]
                                @@ [text |-> _predictions2text(<<prediction>>)[1],
                                    score |-> prediction]
                    ELSE batch_reply[i]],
                 n_examples, models, observations_)

batch_act(observations) ==
    IF cls = "InsultsAgent" THEN InsultsAgent_batch_act(observations)
    ELSE IF cls = "OneEpochAgent" THEN OneEpochAgent_batch_act(observations)
    ELSE EnsembleInsultsAgent_batch_act(observations)

Batches == SeqsUpTo(BatchObservations, MaxBatch)

Trains(observations) ==
    /\ cls = "InsultsAgent" /\ ~is_shared
    /\ Len(observations) > 0
    /\ HasKey(observations[1], "labels")

Counts(observations) ==
    /\ cls \in {"InsultsAgent", "OneEpochAgent"} /\ ~is_shared
    /\ Len(observations) > 0
    /\ HasKey(observations[1], "labels")

BatchAct ==
    /\ Idle
    /\ cls \in AgentClasses
    /\ \E observations \in Batches :
        /\ cls = "OneEpochAgent" =>
                Len(observations_) + Len(observations) <= MaxCollected
        /\ Trains(observations) => models[1].updates < MaxUpdates
        /\ Counts(observations) =>
                n_examples + Len(observations) <= MaxExamples
        /\ LET r == batch_act(observations)
           IN  /\ n_examples' = r.n_examples
               /\ models' = r.models
               /\ observations_' = r.observations_
               /\ ret' = Call("batch_act", r.err, observations, r.reply)
    /\ UNCHANGED <<cls, shared, opt, fs, phase, is_shared, episode_done,
                   observation, model_coefs, heard, loaded>>

\* act(): batch_act over the stored observation alone, first reply returned
Act ==
    /\ Idle
    /\ cls \in AgentClasses
    /\ cls = "OneEpochAgent" => Len(observations_) + 1 <= MaxCollected
    /\ Trains(<<observation>>) => models[1].updates < MaxUpdates
    /\ Counts(<<observation>>) => n_examples + 1 <= MaxExamples
    /\ LET r == batch_act(<<observation>>)
       IN  /\ n_examples' = r.n_examples
           /\ models' = r.models
           /\ observations_' = r.observations_
           /\ ret' = Call("act", r.err, <<observation>>,
                          IF r.err = "none" THEN <<r.reply[1]>> ELSE <<>>)
    /\ UNCHANGED <<cls, shared, opt, fs, phase, is_shared, episode_done,
                   observation, model_coefs, heard, loaded>>

observe_reversed(obs) ==
    IF ~episode_done /\ (~HasKey(observation, "text") \/ ~HasKey(obs, "text"))
    THEN [err |-> "KeyError", observation |-> observation,
          episode_done |-> episode_done]
    ELSE LET stored ==
                IF ~episode_done
                THEN [obs EXCEPT !.text = @ \o <<"\n">> \o observation.text]
                ELSE obs
         IN  [err |-> "none", observation |-> stored,
              episode_done |-> stored.episode_done]

\* observe(observation), the same code in all four agent classes:
\* the error raised, and the fields and return value it leaves
observe(obs) ==
    IF ~episode_done /\ (~HasKey(observation, "text") \/ ~HasKey(obs, "text"))
    THEN [err |-> "KeyError", observation |-> observation,
          episode_done |-> episode_done]
    ELSE LET stored ==
                IF ~episode_done
                THEN [obs EXCEPT !.text = observation.text \o <<"\n">> \o @]
                ELSE obs
         IN  [err |-> "none", observation |-> stored,
              episode_done |-> stored.episode_done]

\* the history after a completed observe: the episode's texts so far and
\* whether the observation just received closed the episode
Heard(h, obs) ==
    [texts |-> (IF h.ended THEN <<>> ELSE h.texts)
                  \o (IF HasKey(obs, "text") THEN <<obs.text>> ELSE <<>>),
     ended |-> obs.episode_done]

Observe ==
    /\ Idle
    /\ cls \in AgentClasses
    /\ \E obs \in Observations :
        LET r == observe(obs)
        IN  /\ HasKey(r.observation, "text") =>
                    Len(r.observation.text) <= MaxTextLen
            /\ observation' = r.observation
            /\ episode_done' = r.episode_done
            /\ heard' = IF r.err = "none" THEN Heard(heard, obs) ELSE heard
            /\ ret' = Call("observe", r.err, <<obs>>,
                           IF r.err = "none" THEN <<r.observation>> ELSE <<>>)
    /\ UNCHANGED <<cls, shared, opt, fs, phase, is_shared, n_examples,
                   observations_, models, model_coefs, loaded>>

----------------------------------------------------------------------------
(* Saving, reporting and constructing anew                                 *)

\* InsultsModel.save(): the files after the adapter wrote its state under
\* the model_file of its own configuration dictionary
save(m, files) ==
    LET fname == m.opt_model_file
    IN  IF fname = NoPath THEN files
        ELSE [files EXCEPT ![fname] =
                [a \in Artifacts |->
                    IF a = "h5" /\ m.model_type = "nn" THEN m.model
                    ELSE IF a = "cls" /\ m.model_type = "ngrams" THEN m.model
                    ELSE IF a = "opt" THEN PathId[fname]
                    ELSE files[fname][a]]]

\* outcome of a save: the error raised, the files and the adapters it leaves
SaveOut(err, files, ms) == [err |-> err, fs |-> files, models |-> ms]

\* InsultsAgent.save
InsultsAgent_save ==
    IF is_shared THEN SaveOut("AttributeError", fs, models)
    ELSE SaveOut("none", save(models[1], fs), models)

\* the vectorizers fitted on the collected data
Fitted(train_data, train_labels) == 3 + Sum(train_labels)

\* utils.create_vectorizer_selector(train_data, train_labels, model_file, ...):
\* fits the special and the six general slots and writes them next to
\* model_file
create_vectorizer_selector(train_data, train_labels, model_file, files) ==
    IF model_file = NoPath THEN [err |-> "TypeError", fs |-> files]
    ELSE IF Len(train_data) = 0 \/ Len(train_data) # Len(train_labels)
    THEN [err |-> "ValueError", fs |-> files]
    ELSE [err |-> "none",
          fs |-> [files EXCEPT ![model_file] =
                    [a \in Artifacts |->
                        IF a \in VectFiles THEN Fitted(train_data, train_labels)
                        ELSE files[model_file][a]]]]

\* lines 478-479: the texts of the collected observations that have a text,
\* the labels of those that have labels
TrainData(collected) ==
    LET with_text == SelectSeq(collected, LAMBDA o : HasKey(o, "text"))
    IN  [i \in 1..Len(with_text) |-> with_text[i].text]
TrainLabels(collected) ==
    LET with_labels == SelectSeq(collected, LAMBDA o : HasKey(o, "labels"))
    IN  _text2predictions([i \in 1..Len(with_labels) |-> with_labels[i].labels[1]])

\* OneEpochAgent.save
OneEpochAgent_save ==
    IF is_shared THEN SaveOut("none", fs, models)
    ELSE IF \E i \in 1..Len(observations_) : observations_[i] \in {NoneObs, StrObs}
    THEN SaveOut("AttributeError", fs, models)
    ELSE
    LET train_data == TrainData(observations_)
        train_labels == TrainLabels(observations_)
    IN  IF models[1].from_saved THEN SaveOut("none", fs, models)
        ELSE
        LET c == create_vectorizer_selector(train_data, train_labels,
                                            opt.model_file, fs)
            g == get_vectorizer_selector(opt.model_file, c.fs)
            m1 == [models[1] EXCEPT !.vectorizers = g.v]
            u == update(m1, Batch("none", "xy", train_data, train_labels))
        IN  IF c.err # "none" THEN SaveOut(c.err, fs, models)
            ELSE IF g.err # "none" THEN SaveOut(g.err, c.fs, models)
            ELSE IF m1.model_type = "nn"
            THEN SaveOut("ValueError", c.fs, <<m1>>)
            ELSE IF u.err # "none" THEN SaveOut(u.err, c.fs, <<m1>>)
            ELSE SaveOut("none", save(u.m, c.fs), <<u.m>>)

Save ==
    /\ Idle
    /\ cls \in {"InsultsAgent", "OneEpochAgent"}
    /\ (cls = "OneEpochAgent" /\ ~is_shared /\ ~models[1].from_saved) =>
            models[1].updates < MaxUpdates
    /\ LET r == IF cls = "InsultsAgent" THEN InsultsAgent_save
                ELSE OneEpochAgent_save
       IN  /\ fs' = r.fs
           /\ models' = r.models
           /\ ret' = Call("save", r.err, <<>>, <<>>)
    /\ UNCHANGED <<cls, shared, opt, phase, is_shared, episode_done,
                   observation, n_examples, observations_, model_coefs,
                   heard, loaded>>

\* InsultsAgent.report
report ==
    IF is_shared THEN [err |-> "AttributeError", report |-> EmptyDict]
    ELSE [err |-> "none",
          report |-> [updates |-> models[1].updates,
                      n_examples |-> n_examples,
                      loss |-> models[1].train_loss,
                      accuracy |-> models[1].train_acc,
                      auc |-> models[1].train_auc]]

Report ==
    /\ Idle
    /\ cls \in {"InsultsAgent", "OneEpochAgent"}
    /\ ret' = Call("report", report.err, <<>>,
                   IF report.err = "none" THEN <<report.report>> ELSE <<>>)
    /\ UNCHANGED <<cls, shared, opt, fs, phase, is_shared, episode_done,
                   observation, n_examples, observations_, models,
                   model_coefs, heard, loaded>>

\* right after a save returned: an object of the same class is constructed
\* with the same model name over the model_file the adapter saved to
Reload ==
    /\ phase = "ready" /\ ~is_shared
    /\ ret.op = "save" /\ ret.err = "none"
    /\ loaded = <<>>
    /\ models[1].opt_model_file # NoPath
    /\ \E pretrained \in {NoPath, opt.pretrained_model} :
        LET o == [opt EXCEPT !.model_file = models[1].opt_model_file,
                             !.pretrained_model = pretrained]
            a == New(cls, o, FALSE, fs)
        IN  /\ loaded' = <<a>>
            /\ ret' = Call("reload", a.err, <<>>, <<>>)
    /\ UNCHANGED <<cls, shared, opt, fs, phase, is_shared, episode_done,
                   observation, n_examples, observations_, models,
                   model_coefs, heard>>

----------------------------------------------------------------------------
(* Configurations                                                          *)

FsComplete(p) == [a \in Artifacts |-> PathId[p]]
FsEmpty == [a \in Artifacts |-> Absent]
FsMissing(p, a) == [FsComplete(p) EXCEPT ![a] = Absent]
FsChoices(p) == {FsComplete(p), FsEmpty} \cup {FsMissing(p, a) : a \in Artifacts}
FsFew(p) == {FsComplete(p), FsEmpty, FsMissing(p, "opt"), FsMissing(p, "g5")}

Coefs == {1, 3}
EnsembleNames == {"cnn_word", "log_reg", "foo"}

Near(n, k) == n - k \in {0 - 1, 0, 1}

SingleOpts(names) ==
    [model_name : names, model_file : {NoPath, "A"},
     pretrained_model : {NoPath, "B"},
     model_names : {<<>>}, model_files : {<<>>}, model_coefs : {<<>>}]

EnsembleOpts(names) ==
    {o \in [model_name : {"cnn_word"}, model_file : {NoPath, "A"},
            pretrained_model : {NoPath},
            model_names : SeqsUpTo(names, MaxModels),
            model_files : SeqsUpTo(Paths, MaxModels),
            model_coefs : SeqsUpTo(Coefs, MaxModels)] :
        /\ Len(o.model_names) - Len(o.model_files) \in {0, 1}
        /\ Near(Len(o.model_names), Len(o.model_coefs))}

Fresh ==
    /\ phase = "new"
    /\ is_shared = Blank.is_shared
    /\ episode_done = Blank.episode_done
    /\ observation = Blank.observation
    /\ n_examples = Blank.n_examples
    /\ observations_ = Blank.observations_
    /\ models = Blank.models
    /\ model_coefs = Blank.model_coefs
    /\ ret = NoCall
    /\ heard = [texts |-> <<>>, ended |-> TRUE]
    /\ loaded = <<>>

\* every way of constructing an adapter or an agent over the persisted files
InitBuild ==
    /\ Fresh
    /\ \/ /\ cls \in {"InsultsModel", "InsultsAgent", "OneEpochAgent"}
          /\ shared \in IF cls = "InsultsModel" THEN {FALSE} ELSE BOOLEAN
          /\ opt \in SingleOpts(ModelNames)
          /\ fs \in [Paths -> UNION {FsChoices(p) : p \in Paths}]
          /\ \A p \in Paths : fs[p] \in FsChoices(p)
       \/ /\ cls \in EnsembleClasses
          /\ shared = FALSE
          /\ opt \in EnsembleOpts(EnsembleNames)
          /\ fs \in [Paths -> UNION {FsFew(p) : p \in Paths}]
          /\ \A p \in Paths : fs[p] \in FsFew(p)

\* agents whose persisted files are all in place; ensemble member i is
\* restored from "A" for odd i and from "B" for even i
InitAgent ==
    /\ Fresh
    /\ fs = [p \in Paths |-> FsComplete(p)]
    /\ shared \in BOOLEAN
    /\ \/ /\ cls \in {"InsultsAgent", "OneEpochAgent"}
          /\ opt \in {o \in SingleOpts({"cnn_word", "log_reg"}) :
                        o.pretrained_model = NoPath}
       \/ /\ cls \in EnsembleClasses
          /\ opt \in {o \in EnsembleOpts({"cnn_word", "log_reg"}) :
                        /\ o.model_file = NoPath
                        /\ Len(o.model_files) = Len(o.model_names)
                        /\ \A i \in 1..Len(o.model_files) :
                            o.model_files[i] = IF i % 2 = 1 THEN "A" ELSE "B"}

\* the same agents, every ensemble member weighted 1
InitObserve ==
    /\ InitAgent
    /\ \A i \in 1..Len(opt.model_coefs) : opt.model_coefs[i] = 1
    /\ Len(opt.model_coefs) = Len(opt.model_names)

\* the agents that act on what they observed without collecting it
InitEpisode == InitObserve /\ cls # "OneEpochAgent"

\* agents constructed with a `shared` argument
InitShared == InitObserve /\ shared

\* InsultsAgent with no model_file, with a model_file that is empty or
\* complete, and with a model_file that lacks the pickled classifier next
\* to a complete pretrained_model
InitSave ==
    /\ Fresh
    /\ cls = "InsultsAgent"
    /\ shared \in BOOLEAN
    /\ opt \in SingleOpts({"cnn_word", "log_reg"})
    /\ fs \in [Paths -> UNION {FsChoices(p) : p \in Paths}]
    /\ \/ /\ opt.model_file = NoPath /\ opt.pretrained_model = NoPath
          /\ fs = [p \in Paths |-> FsEmpty]
       \/ /\ opt.model_file = "A" /\ opt.pretrained_model = NoPath
          /\ fs["A"] \in {FsComplete("A"), FsEmpty}
          /\ fs["B"] = FsEmpty
       \/ /\ opt.model_file = "A" /\ opt.pretrained_model = "B"
          /\ fs["A"] = FsMissing("A", "cls")
          /\ fs["B"] = FsComplete("B")

\* collecting agents of the classical and the neural family, from scratch
\* or restored from model_file
InitEpoch ==
    /\ Fresh
    /\ cls = "OneEpochAgent"
    /\ shared \in BOOLEAN
    /\ opt \in {o \in SingleOpts({"cnn_word", "log_reg"}) :
                    o.pretrained_model = NoPath}
    /\ fs \in [Paths -> UNION {FsChoices(p) : p \in Paths}]
    /\ fs["A"] \in {FsComplete("A"), FsEmpty}
    /\ fs["B"] = FsEmpty

\* ensembles over complete files whose members may bear an unknown name;
\* member i is restored from "A" for odd i and from "B" for even i, every
\* member weighted 1
InitEnsemble ==
    /\ Fresh
    /\ fs = [p \in Paths |-> FsComplete(p)]
    /\ shared = FALSE
    /\ cls \in EnsembleClasses
    /\ opt \in {o \in EnsembleOpts(EnsembleNames) :
                    /\ Len(o.model_files) = Len(o.model_names)
                    /\ Len(o.model_coefs) = Len(o.model_names)
                    /\ \A i \in 1..Len(o.model_files) :
                        /\ o.model_files[i] = IF i % 2 = 1 THEN "A" ELSE "B"
                        /\ o.model_coefs[i] = 1}

NextBuild == Construct \/ Return
NextBatch == Construct \/ BatchAct \/ Return
NextObserve == Construct \/ Observe \/ Return
NextEpisode == Construct \/ Observe \/ Act \/ Return
NextShared == Construct \/ Act \/ BatchAct \/ Return

NextSave == Construct \/ BatchAct \/ Save \/ Report \/ Return
NextReload == Construct \/ BatchAct \/ Save \/ Reload \/ Return

NextEpoch == Construct \/ BatchAct \/ Save \/ Report \/ Return

NextEnsemble == Construct \/ BatchAct \/ Return

SpecBuild == InitBuild /\ [][NextBuild]_vars
SpecBatch == InitAgent /\ [][NextBatch]_vars
SpecObserve == InitObserve /\ [][NextObserve]_vars
SpecEpisode == InitEpisode /\ [][NextEpisode]_vars
SpecShared == InitShared /\ [][NextShared]_vars
SpecSave == InitSave /\ [][NextSave]_vars
SpecReload == InitSave /\ [][NextReload]_vars
SpecEpoch == InitEpoch /\ [][NextEpoch]_vars
SpecEnsemble == InitEnsemble /\ [][NextEnsemble]_vars

----------------------------------------------------------------------------
(* Properties                                                              *)

\* a real observation (a dictionary) without the 'text' key
LacksText(o) == HasKey(o, "episode_done") /\ ~HasKey(o, "text")

\* every adapter of the agent has what predict needs
Usable ==
    \A j \in 1..Len(models) :
        /\ models[j].model_type # "None"
        /\ models[j].model_type = "ngrams" => models[j].vectorizers # Unset

Returned(op) == ret.op = op /\ ret.err = "none"

\* the value num/den lies strictly above 0.5
AboveHalf(q) ==
    \/ q.den > 0 /\ 2 * q.num > 100000 * q.den
    \/ q.den < 0 /\ 2 * q.num < 100000 * q.den

RECURSIVE Join(_)
Join(ts) ==
    IF Len(ts) = 0 THEN <<>>
    ELSE IF Len(ts) = 1 THEN ts[1]
    ELSE ts[1] \o <<"\n">> \o Join(Tail(ts))

\* C1: in non-shared mode batch_act returns, for every batch, one reply per
\* observation, each carrying the agent's id.
C1_ReplyPerObservation ==
    (ret.op = "batch_act" /\ ~is_shared /\ Usable) =>
        /\ ret.err = "none"
        /\ Len(ret.reply) = Len(ret.batch)
        /\ \A i \in 1..Len(ret.reply) : ret.reply[i].id = getID

\* some model answers for the batch: always in InsultsAgent, in prediction
\* mode in OneEpochAgent, with at least one adapter in an ensemble
Contributes ==
    IF cls = "OneEpochAgent" THEN ~HasKey(ret.batch[1], "labels")
    ELSE IF cls \in EnsembleClasses THEN Len(models) > 0
    ELSE TRUE

\* the score the agent's models give to one text, combined as the ensemble
\* combines them (numerator and denominator)
OwnNum(text) ==
    IF cls \in EnsembleClasses
    THEN Sum([j \in 1..Len(models) |-> model_coefs[j] * Score(models[j], text).num])
    ELSE Score(models[1], text).num
OwnDen == IF cls \in EnsembleClasses THEN Sum(model_coefs) ELSE 1

\* C2: when batch_act returns, reply i has 'text' and 'score' exactly when
\* observation i has a text (and a model answers), and the score is the one
\* the model gives to observation i's own text.
C2_Alignment ==
    Returned("batch_act") =>
        \A i \in 1..Len(ret.batch) :
            LET has == HasKey(ret.batch[i], "text") /\ Contributes
            IN  /\ HasKey(ret.reply[i], "text") <=> has
                /\ HasKey(ret.reply[i], "score") <=> has
                /\ has => ret.reply[i].score.num * OwnDen
                            = OwnNum(ret.batch[i].text) * ret.reply[i].score.den

C2_Witness ==
    /\ Returned("batch_act")
    /\ Len(ret.batch) = 2
    /\ LacksText(ret.batch[1])
    /\ HasKey(ret.batch[2], "text")
    /\ ~HasKey(ret.reply[1], "score")
    /\ HasKey(ret.reply[2], "score")

\* C3: an observation without text never makes observe or batch_act (act)
\* raise.
C3_TextlessNeverRaises ==
    (/\ ret.op \in {"observe", "batch_act", "act"}
     /\ ~is_shared
     /\ Usable
     /\ \E i \in 1..Len(ret.batch) : LacksText(ret.batch[i]))
        => ret.err = "none"

\* C4: where all N adapters of an ensemble scored a position, the reply's
\* score is sum(w_i * s_i) / sum(w_i), s_i being adapter i's score.
C4_WeightedAverage ==
    (/\ Returned("batch_act")
     /\ cls \in EnsembleClasses
     /\ Len(model_coefs) = Len(models))
        => \A i \in 1..Len(ret.reply) :
             HasKey(ret.reply[i], "score") =>
                ret.reply[i].score.num * Sum(model_coefs)
                    = ret.reply[i].score.den
                        * Sum([j \in 1..Len(models) |->
                                model_coefs[j]
                                    * Score(models[j], ret.batch[i].text).num])

\* scores 0.8 and 0.4 with weights 1 and 3 give exactly 0.5
C4_Witness ==
    /\ Returned("batch_act")
    /\ cls \in EnsembleClasses
    /\ model_coefs = <<1, 3>>
    /\ Len(models) = 2
    /\ \E i \in 1..Len(ret.reply) :
        /\ HasKey(ret.reply[i], "score")
        /\ Score(models[1], ret.batch[i].text) = Q(80000)
        /\ Score(models[2], ret.batch[i].text) = Q(40000)
        /\ ret.reply[i].score = [num |-> 200000, den |-> 4]

\* C5: a reply's 'text' is 'Insult' exactly when its 'score' is strictly
\* above 0.5, and 'Non-insult' otherwise.
C5_Threshold ==
    Returned("batch_act") =>
        \A i \in 1..Len(ret.reply) :
            HasKey(ret.reply[i], "score") =>
                ret.reply[i].text =
                    IF AboveHalf(ret.reply[i].score) THEN "Insult" ELSE "Non-insult"

\* 0.5 is answered 'Non-insult' and 0.50001 'Insult', alone and combined
C5_Witness ==
    /\ Returned("batch_act")
    /\ Len(ret.reply) = 2
    /\ HasKey(ret.reply[1], "score") /\ HasKey(ret.reply[2], "score")
    /\ ret.reply[1].score = Q(50000) /\ ret.reply[1].text = "Non-insult"
    /\ ret.reply[2].score = Q(50001) /\ ret.reply[2].text = "Insult"

\* C6: the stored observation's text is the newline-join of the texts
\* observed since the last episode end, and observe returns what it stored.
C6_EpisodeText ==
    /\ HasKey(observation, "text") => observation.text = Join(heard.texts)
    /\ Returned("observe") => ret.reply[1] = observation

C6_Witness ==
    /\ Returned("observe")
    /\ Len(heard.texts) = 3
    /\ observation.text = <<"a", "\n", "b", "\n", "a">>

\* C7: in shared mode every batch_act and every act raises the
\* 'Parallel act is not supported' RuntimeError and returns nothing.
C7_SharedRejected ==
    (ret.op \in {"batch_act", "act"} /\ is_shared) =>
        ret.err = "RuntimeError" /\ ret.reply = <<>>

C7_Witness ==
    /\ is_shared
    /\ cls = "OneEpochAgent"
    /\ ret.op = "batch_act"
    /\ Len(ret.batch) = 2
    /\ ret.err = "RuntimeError"

\* C8: a batch_act rejected in shared mode leaves every field of the agent
\* as it was.
C8_RejectedCallChangesNothing ==
    [][(is_shared /\ ret'.op = "batch_act") =>
            UNCHANGED <<observations_, n_examples, episode_done, observation,
                        models, model_coefs>>]_vars

\* the artifacts a family needs to be restored
Required(model_name) ==
    IF model_name \in NNNames THEN {"opt", "h5"}
    ELSE {"opt", "cls"} \cup VectFiles
Stored(p, model_name) == {a \in Required(model_name) : isfile(fs, p, a)}

\* C9: an adapter given a model_file holding some but not all required
\* artifacts, or a pretrained_model lacking one, fails to construct (stated
\* for an adapter that is given one source only).
C9_AllOrNothing ==
    (/\ ret.op = "__init__"
     /\ cls = "InsultsModel"
     /\ Known(opt.model_name)
     /\ \/ /\ opt.model_file # NoPath
           /\ opt.pretrained_model = NoPath
           /\ Stored(opt.model_file, opt.model_name) # {}
           /\ Stored(opt.model_file, opt.model_name) # Required(opt.model_name)
        \/ /\ opt.model_file = NoPath
           /\ opt.pretrained_model # NoPath
           /\ Stored(opt.pretrained_model, opt.model_name)
                # Required(opt.model_name))
        => phase = "failed"

\* C10: construction with a model name outside the four known names fails.
C10_UnknownNameFails ==
    (/\ ret.op = "__init__"
     /\ ~shared
     /\ \/ cls \notin EnsembleClasses /\ ~Known(opt.model_name)
        \/ /\ cls \in EnsembleClasses
           /\ \E i \in 1..Len(opt.model_names) : ~Known(opt.model_names[i]))
        => phase = "failed"

\* C11: after save() of a ready adapter, a new adapter constructed with the
\* same model name over the model_file saved to takes the from-saved path
\* and has the saved adapter's parameters, configuration and vectorizers,
\* so that predict gives the same scores.
C11_RoundTrip ==
    (ret.op = "reload" /\ Usable) =>
        /\ ret.err = "none"
        /\ Len(loaded[1].models) = 1
        /\ loaded[1].models[1].from_saved
        /\ loaded[1].models[1].model = models[1].model
        /\ loaded[1].models[1].opt_model_file = models[1].opt_model_file
        /\ loaded[1].models[1].vectorizers = models[1].vectorizers
        /\ \A t \in Texts :
                Score(loaded[1].models[1], t) = Score(models[1], t)

\* C12: every non-shared ensemble agent that completes construction has as
\* many coefficients as models, each coefficient strictly positive.
C12_CoefficientsMatchModels ==
    (ret.op = "__init__" /\ phase = "ready" /\ cls \in EnsembleClasses
        /\ ~is_shared /\ Len(models) > 0)
        => /\ Len(model_coefs) = Len(models)
           /\ \A i \in 1..Len(model_coefs) : model_coefs[i] > 0
           /\ Sum(model_coefs) > 0

\* C13: a reply's score is sum(w_j * s_j) / sum(w_j), both sums over the
\* adapters that gave a score for that position only.
C13_ContributingOnly ==
    (Returned("batch_act") /\ cls \in EnsembleClasses) =>
        \A i \in 1..Len(ret.reply) :
            HasKey(ret.reply[i], "score") =>
                ret.reply[i].score.num
                        * Sum([j \in 1..Len(models) |-> model_coefs[j]])
                    = ret.reply[i].score.den
                        * Sum([j \in 1..Len(models) |->
                                model_coefs[j]
                                    * Score(models[j], ret.batch[i].text).num])

\* a training call of InsultsAgent completed in this step
Updated == ret'.op = "batch_act" /\ ret'.err = "none"
                /\ HasKey(ret'.batch[1], "labels")

\* the replies of the call that disagree with the labels of their observations
Missed(batch, reply) ==
    Cardinality({i \in 1..Len(batch) :
                    /\ HasKey(batch[i], "text")
                    /\ (batch[i].labels[1] = "Insult") # (reply[i].text = "Insult")})

\* C14: the adapter starts with zero counters; a completed update raises
\* updates by one and leaves loss, accuracy and AUC of that batch alone;
\* predict, save and report leave the adapter as it was.
C14_OnlyUpdateMutates ==
    [][/\ (ret'.op = "__init__" /\ phase' = "ready" /\ ~is_shared') =>
            /\ models'[1].updates = 0
            /\ models'[1].train_loss = 0
            /\ models'[1].train_acc = 0
            /\ models'[1].train_auc = 0
       /\ (phase = "ready" /\ ~is_shared) =>
            IF Updated
            THEN /\ models'[1].updates = models[1].updates + 1
                 /\ models'[1].train_loss = Missed(ret'.batch, ret'.reply)
                 /\ models'[1].train_loss + models'[1].train_acc
                        = Len(Valid(Examples(ret'.batch)))
                 /\ models'[1].train_auc
                        = Cardinality({i \in 1..Len(ret'.batch) :
                                        /\ HasKey(ret'.batch[i], "text")
                                        /\ ret'.batch[i].labels[1] = "Insult"})
            ELSE models' = models]_vars

\* report after two updates and a save of the trained parameters
C14_Witness ==
    /\ Returned("report")
    /\ ret.reply[1].updates = 2
    /\ models[1].model_type = "nn"
    /\ models[1].train_loss + models[1].train_acc = 2
    /\ fs["A"]["h5"] = models[1].model
    /\ fs["A"]["h5"] # PathId["A"]

\* C15: n_examples grows by the size of the example batch exactly when an
\* update call completed, prediction batches and failed training calls
\* leave it alone, and report returns it together with the update count.
C15_ReportCountsTrainedExamples ==
    [][(cls = "InsultsAgent" /\ phase = "ready" /\ ~is_shared) =>
            /\ ret'.op = "batch_act" =>
                    IF models'[1].updates = models[1].updates + 1
                    THEN n_examples'
                            = n_examples + Len(Valid(Examples(ret'.batch)))
                    ELSE n_examples' = n_examples
            /\ ret'.op = "report" =>
                    /\ ret'.reply[1].n_examples = n_examples
                    /\ ret'.reply[1].updates = models[1].updates]_vars

\* C16: for the non-empty example batch of a batch_act call, _batchify
\* returns the label vector exactly when every example has labels, entry i
\* being 1 iff example i's first label is 'Insult'; a batch where only some
\* examples have labels gives the features alone and does not raise.
C16_LabelsWhenAllLabelled ==
    (/\ ret.op = "batch_act"
     /\ ~is_shared
     /\ Len(models) > 0
     /\ models[1].model_type # "None"
     /\ Len(Valid(Examples(ret.batch))) > 0)
        => LET examples == Valid(Examples(ret.batch))
               batch == _batchify(models[1], examples)
           IN  /\ batch.err = "none"
               /\ batch.kind = "xy"
                    <=> \A i \in 1..Len(examples) : HasKey(examples[i], "labels")
               /\ batch.kind = "xy" =>
                    /\ Len(batch.y) = Len(examples)
                    /\ \A i \in 1..Len(examples) :
                        batch.y[i] = IF examples[i].labels[1] = "Insult"
                                     THEN 1 ELSE 0

\* a batch every observation of which has a text, all of them labelled or
\* none of them
WellFormed(batch) ==
    /\ Len(batch) > 0
    /\ \A i \in 1..Len(batch) : HasKey(batch[i], "text")
    /\ \/ \A i \in 1..Len(batch) : HasKey(batch[i], "labels")
       \/ \A i \in 1..Len(batch) : ~HasKey(batch[i], "labels")

\* C17: an adapter that completed construction is ready: the first predict
\* and the first update on a well-formed batch do not fail.
C17_ReadyAfterConstruction ==
    (/\ ret.op = "batch_act"
     /\ cls = "InsultsAgent"
     /\ ~is_shared
     /\ Known(models[1].model_name)
     /\ WellFormed(ret.batch)
     /\ models[1].updates = 0)
        => ret.err = "none"

\* the artifacts whose presence under model_file selects the restore from
\* model_file
Checked(model_name) ==
    IF model_name \in NNNames THEN {"h5"} ELSE {"opt", "cls"} \cup VectFiles

\* the source the priority rule selects: model_file, pretrained_model, or
\* none (from scratch)
ChosenPath ==
    IF opt.model_file # NoPath
            /\ \A a \in Checked(opt.model_name) : fs[opt.model_file][a] # Absent
    THEN opt.model_file
    ELSE opt.pretrained_model

\* C18: a constructed adapter of a known name was initialised by exactly
\* the path the priority rule selects (model_file when its checked
\* artifacts exist, else pretrained_model when configured, else scratch);
\* from_saved tells whether it was a restore and the counters are zero;
\* only a restore can make the construction fail.
C18_InitPathPriority ==
    (/\ ret.op = "__init__"
     /\ cls \in {"InsultsModel", "InsultsAgent", "OneEpochAgent"}
     /\ ~shared
     /\ Known(opt.model_name))
        => IF phase = "ready"
           THEN LET m == models[1]
                    weights == IF opt.model_name \in NNNames THEN "h5" ELSE "cls"
                IN  /\ m.from_saved <=> ChosenPath # NoPath
                    /\ m.model = IF ChosenPath = NoPath THEN 0
                                 ELSE fs[ChosenPath][weights]
                    /\ m.opt_model_file = IF ChosenPath = NoPath
                                          THEN opt.model_file
                                          ELSE PathOf(fs[ChosenPath]["opt"])
                    /\ m.updates = 0 /\ m.train_loss = 0
                    /\ m.train_acc = 0 /\ m.train_auc = 0
           ELSE ChosenPath # NoPath

\* both sources hold every artifact and the adapter was restored from
\* model_file
C18_Witness ==
    /\ ret.op = "__init__" /\ phase = "ready"
    /\ cls = "InsultsModel"
    /\ opt.model_name = "log_reg"
    /\ opt.model_file = "A" /\ opt.pretrained_model = "B"
    /\ fs["A"] = FsComplete("A") /\ fs["B"] = FsComplete("B")
    /\ models[1].from_saved
    /\ models[1].model = PathId["A"]

\* C19: given the k scores of the k adapters and N >= k coefficients,
\* weighted_sum returns the sum of coef[j] * score[j] over the k scores
\* divided by the sum of all N coefficients.
C19_NoRenormalisation ==
    (Returned("batch_act") /\ cls \in EnsembleClasses) =>
        \A i \in 1..Len(ret.reply) :
            HasKey(ret.reply[i], "score") =>
                /\ Len(models) <= Len(model_coefs)
                /\ ret.reply[i].score.den = Sum(model_coefs)
                /\ ret.reply[i].score.num
                    = Sum([j \in 1..Len(models) |->
                            model_coefs[j]
                                * Score(models[j], ret.batch[i].text).num])

\* one adapter scoring 0.8 under the coefficients 1 and 3: 0.8 / 4
C19_Witness ==
    /\ Returned("batch_act")
    /\ cls \in EnsembleClasses
    /\ Len(models) = 1
    /\ model_coefs = <<1, 3>>
    /\ \E i \in 1..Len(ret.reply) :
        /\ HasKey(ret.reply[i], "score")
        /\ Score(models[1], ret.batch[i].text) = Q(80000)
        /\ ret.reply[i].score = [num |-> 80000, den |-> 4]

\* C20: batch_act of a OneEpochAgent leaves the model alone and appends the
\* observations passed, in order; save() of a shared agent or of a
\* from-saved model changes nothing; save() of a non-shared from-scratch
\* agent (classical family, model_file configured, a labelled text
\* collected) builds the vectorizers, makes exactly one update and persists the model.
C20_CollectThenTrainOnSave ==
    [][(cls = "OneEpochAgent" /\ phase = "ready") =>
            /\ ret'.op = "batch_act" =>
                    /\ models' = models
                    /\ observations_' = observations_ \o ret'.batch
            /\ ret'.op = "save" =>
                    IF is_shared \/ models[1].from_saved
                    THEN models' = models /\ fs' = fs
                    ELSE (/\ models[1].model_type = "ngrams"
                          /\ opt.model_file # NoPath
                          /\ \E i \in 1..Len(observations_) :
                                /\ HasKey(observations_[i], "text")
                                /\ HasKey(observations_[i], "labels"))
                         => /\ ret'.err = "none"
                            /\ models'[1].updates = models[1].updates + 1
                            /\ \A v \in VectFiles :
                                fs'[opt.model_file][v] # Absent
                            /\ models'[1].vectorizers
                                = fs'[opt.model_file]["special"]
                            /\ fs'[opt.model_file]["cls"] = models'[1].model
                            /\ fs'[opt.model_file]["opt"] # Absent]_vars

\* the scores gathered by the per-adapter loop for the batch of the call
\* in progress (the adapters are the same before and after the call)
Gathered ==
    Gather(1, ret.batch, [i \in 1..Len(ret.batch) |-> <<>>])

\* C21: when the per-adapter loop of an ensemble's batch_act completes, a
\* position without text holds no score and a position with text holds
\* exactly one score of each of the N adapters, the j-th being the j-th
\* adapter's score of that position's text; no position holds between 1
\* and N-1 scores.
C21_UniformAbsence ==
    (/\ ret.op = "batch_act"
     /\ cls \in EnsembleClasses
     /\ ~is_shared
     /\ Gathered.err = "none")
        => \A i \in 1..Len(ret.batch) :
             LET scores == Gathered.predictions[i]
             IN  /\ Len(scores) \in {0, Len(models)}
                 /\ ~HasKey(ret.batch[i], "text") => Len(scores) = 0
                 /\ HasKey(ret.batch[i], "text") =>
                        /\ Len(scores) = Len(models)
                        /\ \A j \in 1..Len(models) :
                            scores[j] = Score(models[j], ret.batch[i].text)

\* two adapters, a batch whose first observation has no text and whose
\* second has one
C21_Witness ==
    /\ ret.op = "batch_act"
    /\ cls \in EnsembleClasses
    /\ ~is_shared
    /\ Len(models) = 2
    /\ Len(ret.batch) = 2
    /\ LacksText(ret.batch[1])
    /\ HasKey(ret.batch[2], "text")
    /\ Gathered.err = "none"
    /\ Len(Gathered.predictions[1]) = 0
    /\ Len(Gathered.predictions[2]) = 2

\* C22: an ensemble's batch_act is inference only whatever the observations
\* carry: every adapter's predict is handed the features alone, never a
\* (features, labels) pair, and the call returns one score for every
\* observation that has a text, also when observations carry 'labels'.
C22_InferenceOnly ==
    (/\ ret.op = "batch_act"
     /\ cls \in EnsembleClasses
     /\ ~is_shared
     /\ Usable
     /\ Len(models) > 0
     /\ Len(model_coefs) = Len(models)
     /\ \E i \in 1..Len(ret.batch) : HasKey(ret.batch[i], "text"))
        => /\ \A j \in 1..Len(models) :
                _batchify(models[j], Valid(Examples(ret.batch))).kind = "x"
           /\ ret.err = "none"
           /\ \A i \in 1..Len(ret.batch) :
                HasKey(ret.batch[i], "text") => HasKey(ret.reply[i], "score")

\* the positions of the collected observations that supply a training text
\* and of those that supply a training label
TextPositions(collected) ==
    {k \in 1..Len(collected) : HasKey(collected[k], "text")}
LabelPositions(collected) ==
    {k \in 1..Len(collected) : HasKey(collected[k], "labels")}

\* C23: whenever save of a OneEpochAgent trains (its model's update count
\* goes up), the training texts and the training labels are equally many
\* and the i-th text and the i-th label come from the same collected
\* observation, that is, the observations supplying the texts are those
\* supplying the labels.
C23_TextsAndLabelsAligned ==
    [][(/\ cls = "OneEpochAgent"
        /\ phase = "ready"
        /\ ~is_shared
        /\ ret'.op = "save"
        /\ models'[1].updates = models[1].updates + 1)
            => /\ Len(TrainData(observations_)) = Len(TrainLabels(observations_))
               /\ TextPositions(observations_) = LabelPositions(observations_)]_vars

\* the artifact holding the trained parameters of a family
ParamFile(model_name) == IF model_name \in NNNames THEN "h5" ELSE "cls"

\* C24: every adapter of a constructed ensemble is restored from its own
\* model_files[i]: its trained parameters, and for the classical family its
\* vectorizers, are the ones stored at that path, whatever the other
\* adapters and the global model_file option are.
C24_OwnSource ==
    (/\ ret.op = "__init__"
     /\ phase = "ready"
     /\ cls \in EnsembleClasses
     /\ ~is_shared)
        => \A i \in 1..Len(models) :
             Known(opt.model_names[i]) =>
                /\ models[i].from_saved
                /\ models[i].model
                     = fs[opt.model_files[i]][ParamFile(opt.model_names[i])]
                /\ opt.model_names[i] \in NgramNames =>
                     models[i].vectorizers = fs[opt.model_files[i]]["special"]

====
